---- MODULE Spec2Model ----
(***************************************************************************)
(* Model of AuthManager (src/src/auth.py): construction from environment   *)
(* and configuration, the persisted MSAL token cache, and the three token  *)
(* acquisition operations.  The MSAL application object and the identity   *)
(* provider behind it are the environment: every call into them is         *)
(* recorded, and its outcome is chosen among the outcomes the library can  *)
(* produce in the current cache state.                                     *)
(***************************************************************************)
EXTENDS Naturals, Integers, Sequences, FiniteSets, TLC

(* ---- bounds ---- *)
MaxTokens == 2        \* tokens the provider issues in one behaviour

(* ---- values ---- *)
NoneVal == "<None>"                       \* Python None / unset variable
NoToken == 0                              \* access_token is None
AccountNames == {"alice", "bob"}
MaxAccounts == Cardinality(AccountNames)

Truthy(v) == v \notin {NoneVal, ""}

EnvKeys == {"CLIENT_ID", "CLIENT_SECRET", "TENANT_ID", "AUTHORITY"}
ConfigKeys == {"client_id", "client_secret", "tenant_id", "authority"}

NoneScopes == {NoneVal}
GraphDefault == {"https://graph.microsoft.com/.default"}
UserRead == {"User.Read"}
UserReadFiles == {"User.Read", "Files.ReadWrite.All"}
ScopeArgs == {NoneScopes, UserRead}
AppScopeKeys == {GraphDefault, UserRead}

ProviderDiag == "AADSTS: error_description"
NetworkDiag == "ConnectionError"

VARIABLES env, config, cache_file, broker, client_mode, app, token_cache,
          access_token, last, issued, expired

vars == <<env, config, cache_file, broker, client_mode, app, token_cache,
          access_token, last, issued, expired>>

(* ---- configuration resolution: __init__, lines 40-53 ---- *)
\* the configuration consulted first
Resolve_ConfigFirst(e, c) == IF Truthy(c) THEN c ELSE e

\* os.getenv(K) or config.get(k)
Resolve(e, c) == IF Truthy(e) THEN e ELSE c

ResolveClientId(e, c) == Resolve(e["CLIENT_ID"], c["client_id"])
ResolveSecret(e, c) == Resolve(e["CLIENT_SECRET"], c["client_secret"])
ResolveTenant(e, c) == Resolve(e["TENANT_ID"], c["tenant_id"])

TenantAuthority(t) == <<"https://login.microsoftonline.com/", t>>

ResolveAuthority(e, c) ==
    LET authority == Resolve(e["AUTHORITY"], c["authority"])
        tenant_id == ResolveTenant(e, c)
    IN  IF Truthy(authority) THEN <<authority>>
        ELSE IF Truthy(tenant_id) THEN TenantAuthority(tenant_id)
        ELSE TenantAuthority("common")

(* ---- the token cache and its file ---- *)
EmptyCache == [accounts |-> <<>>, app |-> [s \in AppScopeKeys |-> NoToken]]

\* SerializableTokenCache.serialize(): a JSON text with one section per
\* credential kind
Serialize(c) ==
    [Account |-> [i \in 1..Len(c.accounts) |-> c.accounts[i].name],
     AccessToken |-> [i \in 1..Len(c.accounts) |-> c.accounts[i].at],
     AppToken |-> c.app]

\* the Account section of the text not read back
Deserialize_NoAccounts(d) == [accounts |-> <<>>, app |-> d.AppToken]

\* SerializableTokenCache.deserialize() of a text serialize() produced
Deserialize(d) ==
    [accounts |-> [i \in 1..Len(d.Account) |->
                      [name |-> d.Account[i], at |-> d.AccessToken[i]]],
     app |-> d.AppToken]

\* the file: absent, or present with a text that is empty, garbage, or a
\* serialized cache; kind tells which, data is meaningful for "cache"
NoData == Serialize(EmptyCache)
FileMissing == [kind |-> "missing", data |-> NoData]
FileEmpty == [kind |-> "empty", data |-> NoData]
FileCorrupt == [kind |-> "corrupt", data |-> NoData]
FileOf(c) == [kind |-> "cache", data |-> Serialize(c)]

\* the fresh cache of line 57 lost: what the file does not replace stays
LoadCache_Stale(f) ==
    IF f.kind = "cache" THEN Deserialize(f.data) ELSE token_cache

\* __init__, lines 57-67: a fresh cache, filled from the file when the file
\* exists, is not empty and deserializes; a file that cannot be read or
\* parsed (kind "corrupt") raises inside the try and leaves the cache empty
LoadCache(f) ==
    IF f.kind = "cache" THEN Deserialize(f.data) ELSE EmptyCache

NoApp == [kind |-> "none", client_id |-> NoneVal,
          client_credential |-> NoneVal, authority |-> <<>>]

NoCall == [op |-> "none", scopes |-> NoneScopes, interactive |-> FALSE,
           calls |-> <<>>, writes |-> <<>>,
           kind |-> "none", res |-> "none", tok |-> NoToken,
           exc |-> "", detail |-> ""]

(* ---- results and outcomes ---- *)
\* a MSAL result: a dict with "access_token", an error dict, or None
TokenResult(t) == [type |-> "token", tok |-> t, detail |-> ""]
ErrorResult == [type |-> "error", tok |-> NoToken, detail |-> ProviderDiag]
NoneResult == [type |-> "none", tok |-> NoToken, detail |-> ""]
RaisedResult == [type |-> "raise", tok |-> NoToken, detail |-> NetworkDiag]

ResultOf(o, t) ==
    CASE o = "token" -> TokenResult(t)
      [] o = "error" -> ErrorResult
      [] o = "none" -> NoneResult
      [] OTHER -> RaisedResult

\* an error dict taken for a success
HasToken_OrError(r) == r.type \in {"token", "error"}

\* result and "access_token" in result
HasToken(r) == r.type = "token"

\* how a call of an operation ends
Return(r) == [kind |-> "return", res |-> r.type, tok |-> r.tok,
              exc |-> "", detail |-> r.detail]
Raise(e, d) == [kind |-> "raise", res |-> "none", tok |-> NoToken,
                exc |-> e, detail |-> d]

\* a call into the MSAL application, and how it ended
Call(fn, scopes, account, o) ==
    [fn |-> fn, scopes |-> scopes, account |-> account,
     result |-> IF o = "refresh" THEN "token" ELSE o]

\* the state an operation reads and writes
World == [tc |-> token_cache, at |-> access_token, file |-> cache_file,
          issued |-> issued, calls |-> <<>>, writes |-> <<>>]

\* access tokens expire in the order they were issued
Live(w) == (expired + 1)..w.issued

(* ---- the MSAL application (environment) ---- *)
\* app.acquire_token_silent(scopes, account=None) on a confidential client:
\* a cache lookup of the app token for these scopes
SilentAppOutcomes(w, scopes) ==
    IF w.tc.app[scopes] \in Live(w) THEN {"token"} ELSE {"none", "raise"}

ProviderSilentApp(w, scopes, o) ==
    [w |-> [w EXCEPT !.calls = Append(@, Call("acquire_token_silent", scopes, NoneVal, o))],
     res |-> ResultOf(o, w.tc.app[scopes]),
     ok |-> o \in SilentAppOutcomes(w, scopes)]

\* app.acquire_token_for_client(scopes): the client-credentials exchange
ExchangeOutcomes(w) ==
    (IF w.issued < MaxTokens THEN {"token"} ELSE {}) \cup {"error", "none", "raise"}

ProviderClientCredentials(w, scopes, o) ==
    LET t == w.issued + 1
        w1 == [w EXCEPT !.calls = Append(@, Call("acquire_token_for_client", scopes, NoneVal, o))]
    IN  [w |-> IF o = "token"
               THEN [w1 EXCEPT !.tc.app[scopes] = t, !.issued = t]
               ELSE w1,
         res |-> ResultOf(o, t),
         ok |-> o \in ExchangeOutcomes(w)]

\* app.get_accounts()
GetAccounts(w) ==
    [w |-> [w EXCEPT !.calls = Append(@, Call("get_accounts", NoneScopes, NoneVal, "none"))],
     accounts |-> w.tc.accounts]

\* app.acquire_token_silent(scopes, account=a): the cached access token while
\* it is unexpired, else a refresh over the network; None when that yields no
\* token
SilentAcctOutcomes(w, a) ==
    IF a.at \in Live(w) THEN {"token"}
    ELSE (IF w.issued < MaxTokens THEN {"refresh"} ELSE {}) \cup {"none", "raise"}

ProviderSilentAcct(w, scopes, a, o) ==
    LET t == w.issued + 1
        w1 == [w EXCEPT !.calls = Append(@, Call("acquire_token_silent", scopes, a.name, o))]
        i == CHOOSE k \in 1..Len(w.tc.accounts) : w.tc.accounts[k].name = a.name
    IN  [w |-> IF o = "refresh"
               THEN [w1 EXCEPT !.tc.accounts[i].at = t, !.issued = t]
               ELSE w1,
         res |-> IF o = "refresh" THEN TokenResult(t) ELSE ResultOf(o, a.at),
         ok |-> o \in SilentAcctOutcomes(w, a)]

\* app.acquire_token_interactive(scopes): the user signs in as who, or the
\* flow fails
HasAccount(w, who) == \E k \in 1..Len(w.tc.accounts) : w.tc.accounts[k].name = who

InteractiveOutcomes(w, who) ==
    (IF w.issued < MaxTokens /\ (HasAccount(w, who) \/ Len(w.tc.accounts) < MaxAccounts)
     THEN {"token"} ELSE {}) \cup {"error", "none", "raise"}

ProviderInteractive(w, scopes, o, who) ==
    LET t == w.issued + 1
        w1 == [w EXCEPT !.calls = Append(@, Call("acquire_token_interactive", scopes, NoneVal, o))]
        accts == IF HasAccount(w, who)
                 THEN [k \in 1..Len(w.tc.accounts) |->
                         IF w.tc.accounts[k].name = who
                         THEN [name |-> who, at |-> t] ELSE w.tc.accounts[k]]
                 ELSE Append(w.tc.accounts, [name |-> who, at |-> t])
    IN  [w |-> IF o = "token"
               THEN [w1 EXCEPT !.tc.accounts = accts, !.issued = t]
               ELSE w1,
         res |-> ResultOf(o, t),
         ok |-> o \in InteractiveOutcomes(w, who)]

(* ---- AuthManager ---- *)
WriteOutcomes == {"ok", "open_fail", "write_fail"}

\* the write of line 117 lost
_save_cache_skipped(w, wr) == [w EXCEPT !.writes = Append(@, wr)]

\* _save_cache, lines 114-120: open(..., "w") truncates, then the text is
\* written; any exception is swallowed
_save_cache(w, wr) ==
    [w EXCEPT !.writes = Append(@, wr),
              !.file = CASE wr = "ok" -> FileOf(w.tc)
                         [] wr = "write_fail" -> FileEmpty
                         [] OTHER -> w.file]

\* the try/except around acquire_token_silent lost
Caught_Reraised(r) == r

\* the try/except around acquire_token_silent (lines 134-138, 168-172,
\* 215-219): an exception leaves result None
Caught(r) == IF r.type = "raise" THEN NoneResult ELSE r

\* an exception that reaches the body of an operation leaves the operation
Escapes(r) == r.type = "raise"

\* the except clause of lines 118-120 lost
SaveRaises_OnFailure(wr) == wr # "ok"

\* lines 118-120: no failure of the write leaves _save_cache as an exception
SaveRaises(wr) == FALSE

\* lines 151-152 lost: the result is returned, nothing recorded or saved
RecordAndSave_ReturnOnly(w, res, wr, okSoFar) ==
    [w |-> w, ok |-> okSoFar, out |-> Return(res)]

\* lines 151-153 and 189-191: the token is recorded, the cache is saved, the
\* result is returned
RecordAndSave(w, res, wr, okSoFar) ==
    [w |-> _save_cache([w EXCEPT !.at = res.tok], wr),
     ok |-> okSoFar,
     out |-> IF SaveRaises(wr) THEN Raise("OSError", "cache write failed")
             ELSE Return(res)]

\* line 128
ClientFlowAllowed(mode) == mode = "confidential"

\* the silent result ignored
NeedsExchange_Always(result) == TRUE

\* line 140: the exchange runs when the silent attempt gave no token
NeedsExchange(result) == ~HasToken(result)

\* acquire_token_for_client, lines 122-153
acquire_token_for_client(w, scopesArg, os, ox, wr) ==
    IF ~ClientFlowAllowed(client_mode)
    THEN [w |-> w, ok |-> TRUE,
          out |-> Raise("RuntimeError", "Client credentials flow requires CLIENT_SECRET")]
    ELSE
    LET scopes == IF scopesArg = NoneScopes THEN GraphDefault ELSE scopesArg
        s == ProviderSilentApp(w, scopes, os)
        silent == Caught(s.res)
        x == ProviderClientCredentials(s.w, scopes, ox)
    IN  IF Escapes(silent)
        THEN [w |-> s.w, ok |-> s.ok, out |-> Raise("ProviderError", silent.detail)]
        ELSE IF ~NeedsExchange(silent)
        THEN IF HasToken(silent)
             THEN RecordAndSave(s.w, silent, wr, s.ok)
             ELSE [w |-> s.w, ok |-> s.ok, out |-> Return(silent)]
        ELSE IF Escapes(x.res)
        THEN [w |-> x.w, ok |-> s.ok /\ x.ok,
              out |-> Raise("ProviderError", x.res.detail)]
        ELSE IF HasToken(x.res)
        THEN RecordAndSave(x.w, x.res, wr, s.ok /\ x.ok)
        ELSE [w |-> x.w, ok |-> s.ok /\ x.ok, out |-> Return(x.res)]

\* acquire_token_interactive, lines 182-197: the interactive flow and what
\* follows it
InteractiveTail(w, scopes, oi, who, wr, okSoFar) ==
    LET r == ProviderInteractive(w, scopes, oi, who)
    IN  IF r.res.type = "raise"
        THEN [w |-> r.w, ok |-> okSoFar /\ r.ok,
              out |-> Raise("Exception", "Interactive login failed (exception)")]
        ELSE IF HasToken(r.res)
        THEN RecordAndSave(r.w, r.res, wr, okSoFar /\ r.ok)
        ELSE [w |-> r.w, ok |-> okSoFar /\ r.ok,
              out |-> Raise("Exception",
                            IF r.res.type = "error" THEN r.res.detail ELSE "no result")]

\* the mode check of line 163 lost
InteractiveFlowAllowed_Any(mode) == TRUE

\* line 163
InteractiveFlowAllowed(mode) == mode = "public"

\* the early return of line 175 lost
SilentHit_Never(result) == FALSE

\* line 173: a silent token ends acquire_token_interactive at once
SilentHit(result) == HasToken(result)

\* the silent attempt of lines 167-180 lost
TriesSilent_Never(accounts) == FALSE

\* line 167: the silent attempt is made when the cache lists an account
TriesSilent(accounts) == accounts # <<>>

\* acquire_token_interactive, lines 155-197
acquire_token_interactive(w, scopesArg, os, oi, who, wr) ==
    IF ~InteractiveFlowAllowed(client_mode)
    THEN [w |-> w, ok |-> TRUE,
          out |-> Raise("RuntimeError", "Interactive flow requires a public client")]
    ELSE
    LET scopes == IF scopesArg = NoneScopes THEN UserReadFiles ELSE scopesArg
        g == GetAccounts(w)
    IN  IF TriesSilent(g.accounts)
        THEN LET s == ProviderSilentAcct(g.w, scopes, g.accounts[1], os)
                 silent == Caught(s.res)
             IN  IF Escapes(silent)
                 THEN [w |-> s.w, ok |-> s.ok,
                       out |-> Raise("ProviderError", silent.detail)]
                 ELSE IF SilentHit(silent)
                 THEN [w |-> [s.w EXCEPT !.at = silent.tok], ok |-> s.ok,
                       out |-> Return(silent)]
                 ELSE InteractiveTail(s.w, scopes, oi, who, wr, s.ok)
        ELSE InteractiveTail(g.w, scopes, oi, who, wr, TRUE)

\* res.get("access_token") if res else None
TokenOrNone(out) ==
    IF out.kind = "return"
    THEN Return(IF out.res = "token" THEN TokenResult(out.tok) ELSE NoneResult)
    ELSE out

\* the interactive argument ignored
FallsBack_Always(interactive) == TRUE

\* line 228: the interactive fallback runs only when the caller asked for it
FallsBack(interactive) == interactive

\* the mode test of line 205 lost
AppOnlyPath_Never(mode) == FALSE

\* line 205
AppOnlyPath(mode) == mode = "confidential"

\* get_token, lines 199-232
get_token(w, scopesArg, interactive, os1, os2, ox, oi, who, wr) ==
    IF AppOnlyPath(client_mode)
    THEN LET r == acquire_token_for_client(w, scopesArg, os1, ox, wr)
         IN  [r EXCEPT !.out = TokenOrNone(@)]
    ELSE
    LET scopes == IF scopesArg = NoneScopes THEN UserRead ELSE scopesArg
        g == GetAccounts(w)
        s == IF g.accounts # <<>>
             THEN ProviderSilentAcct(g.w, scopes, g.accounts[1], os1)
             ELSE [w |-> g.w, res |-> NoneResult, ok |-> TRUE]
        silent == Caught(s.res)
    IN  IF Escapes(silent)
        THEN [w |-> s.w, ok |-> s.ok, out |-> Raise("ProviderError", silent.detail)]
        ELSE IF HasToken(silent)
        THEN [w |-> s.w, ok |-> s.ok, out |-> Return(silent)]
        ELSE IF FallsBack(interactive)
        THEN LET r == acquire_token_interactive(s.w, scopes, os2, oi, who, wr)
             IN  [w |-> r.w, ok |-> s.ok /\ r.ok, out |-> TokenOrNone(r.out)]
        ELSE [w |-> s.w, ok |-> s.ok, out |-> Return(NoneResult)]

(* ---- construction: __init__, lines 29-86 ---- *)
\* the secret tested against None instead of for truth
ClientMode_NotNone(client_secret) ==
    IF client_secret # NoneVal THEN "confidential" ELSE "public"

\* lines 69-84
ClientMode(client_secret) ==
    IF Truthy(client_secret) THEN "confidential" ELSE "public"

\* lines 71-83: the MSAL application built for the mode
MakeApp(client_id, client_secret, authority) ==
    IF Truthy(client_secret)
    THEN [kind |-> "ConfidentialClientApplication", client_id |-> client_id,
          client_credential |-> client_secret, authority |-> authority]
    ELSE [kind |-> "PublicClientApplication", client_id |-> client_id,
          client_credential |-> NoneVal, authority |-> authority]

\* the client identifier tested against None instead of for truth
ConstructionFails_OnlyNone(e, c) == ResolveClientId(e, c) = NoneVal

\* lines 52-53
ConstructionFails(e, c) == ~Truthy(ResolveClientId(e, c))

InitCall(k, e, d) ==
    [NoCall EXCEPT !.op = "__init__", !.kind = k, !.exc = e, !.detail = d]

\* a process starts and constructs its AuthManager; a later construction is a
\* restart on the cache file the earlier process left
Construct ==
    /\ access_token' = NoToken
    /\ IF ConstructionFails(env, config)
       THEN /\ broker' = "failed"
            /\ client_mode' = "none"
            /\ app' = NoApp
            /\ token_cache' = EmptyCache
            /\ last' = InitCall("raise", "ValueError", "CLIENT_ID must be set")
       ELSE /\ broker' = "live"
            /\ client_mode' = ClientMode(ResolveSecret(env, config))
            /\ app' = MakeApp(ResolveClientId(env, config),
                              ResolveSecret(env, config),
                              ResolveAuthority(env, config))
            /\ token_cache' = LoadCache(cache_file)
            /\ last' = InitCall("return", "", "")
    /\ UNCHANGED <<env, config, cache_file, issued, expired>>

(* ---- the operations as steps ---- *)
Commit(r, op, scopesArg, interactive) ==
    /\ r.ok
    /\ token_cache' = r.w.tc
    /\ access_token' = r.w.at
    /\ cache_file' = r.w.file
    /\ issued' = r.w.issued
    /\ last' = [op |-> op, scopes |-> scopesArg, interactive |-> interactive,
                calls |-> r.w.calls, writes |-> r.w.writes,
                kind |-> r.out.kind, res |-> r.out.res, tok |-> r.out.tok,
                exc |-> r.out.exc, detail |-> r.out.detail]
    /\ UNCHANGED <<env, config, broker, client_mode, app, expired>>

FinalKinds == {"token", "error", "none", "raise"}

\* the choices a call does not consume are fixed, so that each run of an
\* operation is enumerated once
Only(cond, S, d) == IF cond THEN S ELSE {d}
Confidential == client_mode = "confidential"
Public == client_mode = "public"
Cached == token_cache.accounts # <<>>
Succeeds(o) == o \in {"token", "refresh"}
EffectiveAppScopes(s) == IF s = NoneScopes THEN GraphDefault ELSE s
SilentAppChoices(s) ==
    Only(Confidential, SilentAppOutcomes(World, EffectiveAppScopes(s)), "none")
\* who may sign in: a user whose account is cached, or one new user (new
\* users differ in name only, so they sign in in the order of AccountOrder)
AccountOrder == <<"alice", "bob">>
CachedNames == {token_cache.accounts[k].name : k \in 1..Len(token_cache.accounts)}
WhoChoices ==
    CachedNames \cup
    {AccountOrder[i] : i \in {j \in 1..Len(AccountOrder) :
                                /\ AccountOrder[j] \notin CachedNames
                                /\ \A k \in 1..(j - 1) : AccountOrder[k] \in CachedNames}}
SilentAcctChoices(cond) ==
    IF cond /\ Public /\ Cached
    THEN SilentAcctOutcomes(World, token_cache.accounts[1]) ELSE {"none"}

CallAcquireTokenForClient ==
    /\ broker = "live"
    /\ \E s \in ScopeArgs :
       \E os \in SilentAppChoices(s) :
       \E ox \in Only(Confidential /\ ~Succeeds(os), ExchangeOutcomes(World), "none") :
       \E wr \in Only(Succeeds(os) \/ ox = "token", WriteOutcomes, "ok") :
       \E r \in {acquire_token_for_client(World, s, os, ox, wr)} :
          Commit(r, "acquire_token_for_client", s, FALSE)

CallAcquireTokenInteractive ==
    /\ broker = "live"
    /\ \E s \in ScopeArgs :
       \E os \in SilentAcctChoices(TRUE) :
       \E oi \in Only(Public /\ ~Succeeds(os), FinalKinds, "none") :
       \E who \in Only(oi = "token", WhoChoices, "alice") :
       \E wr \in Only(oi = "token", WriteOutcomes, "ok") :
       \E r \in {acquire_token_interactive(World, s, os, oi, who, wr)} :
          Commit(r, "acquire_token_interactive", s, FALSE)

CallGetToken ==
    /\ broker = "live"
    /\ \E s \in ScopeArgs, interactive \in BOOLEAN :
       \E os1 \in IF Confidential THEN SilentAppChoices(s) ELSE SilentAcctChoices(TRUE) :
       \E os2 \in SilentAcctChoices(interactive /\ ~Succeeds(os1)) :
       \E ox \in Only(Confidential /\ ~Succeeds(os1), ExchangeOutcomes(World), "none") :
       \E oi \in Only(Public /\ interactive /\ ~Succeeds(os1) /\ ~Succeeds(os2),
                      FinalKinds, "none") :
       \E who \in Only(oi = "token", WhoChoices, "alice") :
       \E wr \in Only(Succeeds(os1) \/ ox = "token" \/ oi = "token", WriteOutcomes, "ok") :
       \E r \in {get_token(World, s, interactive, os1, os2, ox, oi, who, wr)} :
          Commit(r, "get_token", s, interactive)

(* ---- the environment ---- *)
SecretValues == {NoneVal, "env-secret"}

\* os.environ changes while the broker lives
SetEnv ==
    /\ broker = "live"
    /\ \E v \in SecretValues :
          /\ v # env["CLIENT_SECRET"]
          /\ env' = [env EXCEPT !["CLIENT_SECRET"] = v]
    /\ UNCHANGED <<config, cache_file, broker, client_mode, app, token_cache,
                   access_token, last, issued, expired>>

\* time passes: the oldest unexpired access token reaches its expiry
Expire ==
    /\ expired < issued
    /\ expired' = expired + 1
    /\ UNCHANGED <<env, config, cache_file, broker, client_mode, app,
                   token_cache, access_token, last, issued>>

(* ---- specification ---- *)
Unset == [k \in EnvKeys |-> NoneVal]

Init ==
    /\ env \in {[Unset EXCEPT !["CLIENT_SECRET"] = v] : v \in SecretValues}
    /\ config \in {[client_id |-> i, client_secret |-> "",
                    tenant_id |-> NoneVal, authority |-> NoneVal] :
                    i \in {"", "cfg-id"}}
    /\ cache_file \in {FileMissing, FileCorrupt}
    /\ broker = "none"
    /\ client_mode = "none"
    /\ app = NoApp
    /\ token_cache = EmptyCache
    /\ access_token = NoToken
    /\ last = NoCall
    /\ issued = 0
    /\ expired = 0

Next ==
    \/ Construct
    \/ CallAcquireTokenForClient
    \/ CallAcquireTokenInteractive
    \/ CallGetToken
    \/ Expire

Spec == Init /\ [][Next]_vars

(* ---- the same, with the environment changing under the broker ---- *)
InitEnv ==
    /\ Init
    /\ config["client_id"] = "cfg-id"
    /\ cache_file = FileMissing

NextEnv ==
    \/ Construct
    \/ CallAcquireTokenForClient
    \/ CallAcquireTokenInteractive
    \/ CallGetToken
    \/ Expire
    \/ SetEnv

SpecEnv == InitEnv /\ [][NextEnv]_vars

(* ---- construction over every combination of inputs ---- *)
EnvValues == {NoneVal, "", "env-value"}
ConfigValues == {NoneVal, "", "cfg-value"}

InitConfig ==
    /\ env \in [EnvKeys -> EnvValues]
    /\ config \in [ConfigKeys -> ConfigValues]
    /\ cache_file \in {FileMissing, FileCorrupt}
    /\ broker = "none"
    /\ client_mode = "none"
    /\ app = NoApp
    /\ token_cache = EmptyCache
    /\ access_token = NoToken
    /\ last = NoCall
    /\ issued = 0
    /\ expired = 0

NextConfig == Construct

SpecConfig == InitConfig /\ [][NextConfig]_vars

(* ---- reading the record of the last call ---- *)
Invoked(c, fn) == \E i \in 1..Len(c.calls) : c.calls[i].fn = fn
InvokedWith(c, fn, result) ==
    \E i \in 1..Len(c.calls) : c.calls[i].fn = fn /\ c.calls[i].result = result
Returned(c) == c.kind = "return"
ReturnedToken(c) == c.kind = "return" /\ c.res = "token"
\* a step in which an operation of the broker ran
IsCall == last' # last /\ last'.op # "__init__"
Absent(v) == v = NoneVal \/ v = ""
LiveNow == (expired + 1)..issued

(* ---- C1 ---- *)
\* C1 as claimed: a direct acquire_token_interactive call on a delegated
\* broker whose cache holds some account with an unexpired cached token never
\* invokes the interactive flow and returns a token.
C1_AnyValidAccount ==
    [][(/\ IsCall
        /\ last'.op = "acquire_token_interactive"
        /\ client_mode = "public"
        /\ \E k \in 1..Len(token_cache.accounts) :
              token_cache.accounts[k].at \in LiveNow)
       => (/\ ~Invoked(last', "acquire_token_interactive")
           /\ ReturnedToken(last'))]_vars

\* C1 amended: when the silent attempt against the first cached account yields
\* an access token, acquire_token_interactive does not invoke the interactive
\* flow and returns that token, which is the one the cache holds for the first
\* account.
C1_SilentFirst ==
    (/\ last.op = "acquire_token_interactive"
     /\ InvokedWith(last, "acquire_token_silent", "token"))
    => (/\ ~Invoked(last, "acquire_token_interactive")
        /\ ReturnedToken(last)
        /\ last.tok = token_cache.accounts[1].at
        /\ last.calls[2].account = token_cache.accounts[1].name)

C1_Witness ==
    /\ last.op = "acquire_token_interactive"
    /\ InvokedWith(last, "acquire_token_silent", "token")
    /\ ReturnedToken(last)
    /\ access_token = last.tok
    /\ cache_file # FileOf(token_cache)

(* ---- C2 ---- *)
\* C2: in delegated mode get_token(interactive=False) never invokes the
\* interactive flow and raises nothing; with no cached account it returns None.
C2_NoPromptUnlessAsked ==
    (last.op = "get_token" /\ ~last.interactive /\ client_mode = "public")
    => (/\ ~Invoked(last, "acquire_token_interactive")
        /\ Returned(last)
        /\ (token_cache.accounts = <<>> => last.res = "none" /\ last.tok = NoToken))

C2_Witness ==
    /\ last.op = "get_token" /\ ~last.interactive /\ client_mode = "public"
    /\ token_cache.accounts = <<>>
    /\ last.res = "none"

(* ---- C3 ---- *)
\* C3 as claimed: a delegated get_token(interactive=True) that reaches the
\* interactive flow returns, with a token or with a failure result; it does not
\* raise.
C3_FailureIsReturned ==
    (/\ last.op = "get_token" /\ last.interactive /\ client_mode = "public"
     /\ Invoked(last, "acquire_token_interactive"))
    => Returned(last)

(* ---- C4 ---- *)
\* C4 as claimed: when the silent attempt and the client-credentials exchange
\* both fail, acquire_token_for_client returns a failure result and does not
\* raise.
C4_ExchangeFailureIsReturned ==
    (/\ last.op = "acquire_token_for_client"
     /\ Invoked(last, "acquire_token_for_client")
     /\ ~InvokedWith(last, "acquire_token_for_client", "token"))
    => (Returned(last) /\ last.res # "token")

(* ---- C5 ---- *)
AllWritesOk(c) == \A i \in 1..Len(c.writes) : c.writes[i] = "ok"

\* C5 as claimed: after every operation that returned a token, and whose
\* writes of the cache file did not fail, the file holds the serialization of
\* the in-memory cache.
C5_FileFollowsEverySuccess ==
    (ReturnedToken(last) /\ AllWritesOk(last))
    => cache_file = FileOf(token_cache)

\* the successes of the app-only path and of the interactive flow
SavingSuccess(c) ==
    /\ ReturnedToken(c)
    /\ \/ client_mode = "confidential"
       \/ InvokedWith(c, "acquire_token_interactive", "token")

\* C5 amended: a token obtained on the app-only path (silent hit or exchange)
\* or from the interactive flow is followed by exactly one _save_cache before
\* the operation returns, which, unless the write fails, leaves the file equal
\* to the serialization of the in-memory cache; a delegated silent hit (in
\* acquire_token_interactive or in get_token) does not write the file.
C5_SavedAfterFinalStrategy ==
    /\ SavingSuccess(last)
       => (/\ Len(last.writes) = 1
           /\ (last.writes[1] = "ok" => cache_file = FileOf(token_cache)))
    /\ (ReturnedToken(last) /\ ~SavingSuccess(last)) => last.writes = <<>>

C5_Witness ==
    /\ SavingSuccess(last)
    /\ last.writes = <<"ok">>
    /\ token_cache.accounts # <<>>
    /\ cache_file = FileOf(token_cache)

(* ---- C6 ---- *)
\* C6 as claimed: after any operation returns a token, the in-memory
\* access_token is the token just returned.
C6_ReturnedTokenIsHeld ==
    ReturnedToken(last) => access_token = last.tok

(* ---- C7 ---- *)
\* C7: in app-only mode, an acquire_token_for_client call that directly
\* follows a successful one with the same scopes, while the token that one
\* cached is unexpired, is answered by the silent lookup: no client-credentials
\* exchange, and the same, unexpired token is returned.
C7_SecondCallIsSilent ==
    [][(/\ IsCall
        /\ last.op = "acquire_token_for_client" /\ ReturnedToken(last)
        /\ last'.op = "acquire_token_for_client"
        /\ last'.scopes = last.scopes
        /\ last.tok \in LiveNow)
       => (/\ ~Invoked(last', "acquire_token_for_client")
           /\ ReturnedToken(last')
           /\ last'.tok = last.tok
           /\ issued' = issued)]_vars

C7_Witness ==
    /\ last.op = "acquire_token_for_client"
    /\ ReturnedToken(last)
    /\ Len(last.calls) = 1
    /\ last.calls[1].fn = "acquire_token_silent"
    /\ last.tok \in LiveNow

(* ---- C8 ---- *)
\* C8: the mode is set at construction, confidential exactly when the secret
\* taken from the environment, or else from the configuration, is non-empty,
\* and no later step of the same broker (an operation, a cache save, a change
\* of the environment) changes it.
C8_ModeFixed ==
    [][/\ (~Construct => client_mode' = client_mode /\ app' = app)
       /\ (Construct /\ broker' = "live")
          => LET secret == IF Absent(env["CLIENT_SECRET"])
                           THEN config["client_secret"]
                           ELSE env["CLIENT_SECRET"]
             IN  /\ client_mode' = IF Absent(secret) THEN "public" ELSE "confidential"
                 /\ (client_mode' = "confidential"
                       <=> app'.kind = "ConfidentialClientApplication")]_vars

\* an operation has run on a delegated broker while the environment now holds
\* a secret
C8_Witness ==
    /\ client_mode = "public"
    /\ ~Absent(env["CLIENT_SECRET"])
    /\ ReturnedToken(last)

(* ---- C9 ---- *)
WrongMode(op) ==
    \/ op = "acquire_token_for_client" /\ client_mode = "public"
    \/ op = "acquire_token_interactive" /\ client_mode = "confidential"

\* C9: an operation called in the wrong mode raises at once (RuntimeError with
\* the mode message): no call into the MSAL application, no cache write, and
\* access_token, the in-memory cache and the cache file are as before.
C9_ModeError ==
    [][(IsCall /\ WrongMode(last'.op))
       => (/\ last'.kind = "raise" /\ last'.exc = "RuntimeError"
           /\ last'.calls = <<>> /\ last'.writes = <<>>
           /\ access_token' = access_token
           /\ cache_file' = cache_file
           /\ token_cache' = token_cache
           /\ issued' = issued)]_vars

C9_Witness ==
    /\ WrongMode(last.op)
    /\ last.kind = "raise"
    /\ access_token # NoToken

(* ---- C10 ---- *)
\* C10: a construction finding no client identifier, or an empty one, in both
\* the environment and the configuration raises (ValueError) and leaves no
\* broker, whatever the secret, tenant, authority and cache file are.
C10_NoClientId ==
    [][(Construct /\ Absent(env["CLIENT_ID"]) /\ Absent(config["client_id"]))
       => (/\ broker' = "failed"
           /\ last'.op = "__init__" /\ last'.kind = "raise"
           /\ last'.exc = "ValueError"
           /\ app' = NoApp /\ client_mode' = "none")]_vars

C10_Witness ==
    /\ broker = "failed"
    /\ env["CLIENT_ID"] = "" /\ config["client_id"] = NoneVal
    /\ ~Absent(env["CLIENT_SECRET"])
    /\ ~Absent(config["authority"])
    /\ cache_file = FileCorrupt

(* ---- C11 ---- *)
SilentFailed(c, i) ==
    c.calls[i].fn = "acquire_token_silent" /\ c.calls[i].result # "token"

FollowedBy(c, i, fn) == i < Len(c.calls) /\ c.calls[i + 1].fn = fn

\* what the chain of the operation does after its silent attempt i failed
ProceedsAfter(c, i) ==
    IF c.op = "acquire_token_for_client" \/ client_mode = "confidential"
    THEN FollowedBy(c, i, "acquire_token_for_client")
    ELSE IF c.op = "acquire_token_interactive"
    THEN FollowedBy(c, i, "acquire_token_interactive")
    ELSE IF ~c.interactive
    THEN i = Len(c.calls) /\ Returned(c) /\ c.res = "none"
    ELSE IF i = 2
    THEN FollowedBy(c, i, "get_accounts")
    ELSE FollowedBy(c, i, "acquire_token_interactive")

\* C11: a silent attempt that raises, or yields no token, never ends the
\* operation with an exception: acquire_token_for_client goes on to the
\* client-credentials exchange, acquire_token_interactive to the interactive
\* flow, and get_token to its next strategy, or returns None when
\* interactive is false.
C11_SilentFailureIsSoft ==
    \A i \in 1..Len(last.calls) :
        SilentFailed(last, i) => ProceedsAfter(last, i)

C11_Witness ==
    /\ last.op = "get_token" /\ last.interactive /\ client_mode = "public"
    /\ Len(last.calls) = 5
    /\ last.calls[2].result = "raise"
    /\ last.calls[4].result = "raise"
    /\ InvokedWith(last, "acquire_token_interactive", "token")

(* ---- C12 ---- *)
WriteFailed(c) == \E i \in 1..Len(c.writes) : c.writes[i] # "ok"

\* the in-memory cache holds token t
InMemory(t) ==
    \/ \E sc \in AppScopeKeys : token_cache.app[sc] = t
    \/ \E k \in 1..Len(token_cache.accounts) : token_cache.accounts[k].at = t

\* C12: an operation whose write of the cache file failed still returns the
\* token the provider gave it, holds that token as access_token and in the
\* in-memory cache, raises nothing, and the broker stays live.
C12_WriteFailureIsSilent ==
    WriteFailed(last)
    => (/\ ReturnedToken(last)
        /\ last.tok # NoToken
        /\ last.calls[Len(last.calls)].result = "token"
        /\ access_token = last.tok
        /\ InMemory(last.tok)
        /\ broker = "live")

C12_Witness ==
    /\ last.writes = <<"write_fail">>
    /\ cache_file = FileEmpty
    /\ ReturnedToken(last)
    /\ access_token = last.tok

(* ---- C13 ---- *)
\* C13: a construction that finds a client identifier and a cache file that
\* is missing, empty, unreadable or not a serialized cache succeeds with an
\* empty in-memory cache (no account, no token), and a delegated
\* get_token(interactive=False) that follows it returns None without a silent
\* attempt.
C13_BadFileIsEmptyCache ==
    [][/\ (/\ Construct
           /\ cache_file.kind # "cache"
           /\ ~(Absent(env["CLIENT_ID"]) /\ Absent(config["client_id"])))
          => (/\ broker' = "live"
              /\ last'.kind = "return"
              /\ token_cache'.accounts = <<>>
              /\ \A sc \in AppScopeKeys : token_cache'.app[sc] = NoToken)
       /\ (/\ IsCall
           /\ last.op = "__init__"
           /\ cache_file.kind # "cache"
           /\ last'.op = "get_token" /\ ~last'.interactive
           /\ client_mode = "public")
          => (/\ Returned(last') /\ last'.res = "none" /\ last'.tok = NoToken
              /\ ~Invoked(last', "acquire_token_silent")
              /\ ~Invoked(last', "acquire_token_interactive"))]_vars

\* a restarted delegated broker found the file a failed write had emptied
C13_Witness ==
    /\ last.op = "get_token" /\ ~last.interactive /\ client_mode = "public"
    /\ last.res = "none"
    /\ cache_file = FileEmpty
    /\ token_cache = EmptyCache
    /\ issued > 0

(* ---- C14 ---- *)
DelegatedOps == {"acquire_token_interactive", "get_token"}

\* the first call of a delegated broker that was constructed on a file
\* holding a saved cache
FirstCallAfterRestart ==
    /\ IsCall
    /\ last.op = "__init__"
    /\ client_mode = "public"
    /\ last'.op \in DelegatedOps
    /\ cache_file = FileOf(token_cache)

SilentFor(c, name) ==
    \E i \in 1..Len(c.calls) :
        /\ c.calls[i].fn = "acquire_token_silent"
        /\ c.calls[i].account = name
        /\ c.calls[i].result = "token"

\* C14 as claimed: whichever saved account it is whose persisted token is
\* unexpired, the first delegated call of the restarted broker obtains that
\* account's token silently and does not invoke the interactive flow.
C14_AnyPersistedAccount ==
    [][FirstCallAfterRestart
       => \A k \in 1..Len(token_cache.accounts) :
             token_cache.accounts[k].at \in LiveNow
             => (/\ ReturnedToken(last')
                 /\ ~Invoked(last', "acquire_token_interactive")
                 /\ SilentFor(last', token_cache.accounts[k].name)
                 /\ last'.tok = token_cache.accounts[k].at)]_vars

\* C14 amended: a construction on a file holding a saved cache loads exactly
\* that cache, every saved account included, and serializing the loaded
\* cache gives the file back; when the persisted token of the first account
\* of the loaded cache is unexpired, the first delegated call of the
\* restarted broker obtains that token silently for the first account and
\* does not invoke the interactive flow.
C14_RoundTrip ==
    [][/\ (Construct /\ broker' = "live" /\ cache_file.kind = "cache")
          => (/\ FileOf(token_cache') = cache_file
              /\ Len(token_cache'.accounts) = Len(cache_file.data.Account)
              /\ \A k \in 1..Len(cache_file.data.Account) :
                    /\ token_cache'.accounts[k].name = cache_file.data.Account[k]
                    /\ token_cache'.accounts[k].at = cache_file.data.AccessToken[k])
       /\ (/\ FirstCallAfterRestart
           /\ token_cache.accounts # <<>>
           /\ token_cache.accounts[1].at \in LiveNow)
          => (/\ ReturnedToken(last')
              /\ ~Invoked(last', "acquire_token_interactive")
              /\ SilentFor(last', token_cache.accounts[1].name)
              /\ last'.tok = token_cache.accounts[1].at)]_vars

\* a restarted delegated broker (no token held in memory yet) answered from
\* the cache it loaded
C14_Witness ==
    /\ last.op = "get_token" /\ client_mode = "public"
    /\ ReturnedToken(last)
    /\ Len(last.calls) = 2
    /\ access_token = NoToken
    /\ cache_file = FileOf(token_cache)
    /\ last.tok = token_cache.accounts[1].at

SameAsForClient(r) ==
    /\ r.ok
    /\ r.w.calls = last'.calls
    /\ r.w.writes = last'.writes
    /\ r.w.tc = token_cache'
    /\ r.w.at = access_token'
    /\ r.w.file = cache_file'
    /\ r.w.issued = issued'
    /\ r.out.kind = last'.kind
    /\ r.out.exc = last'.exc
    /\ r.out.kind = "return"
       => (/\ last'.tok = r.out.tok
           /\ last'.res = IF r.out.res = "token" THEN "token" ELSE "none")

\* what the MSAL application answered to call i of c, and how write i ended
AnswerAt(c, i) == IF i <= Len(c.calls) THEN c.calls[i].result ELSE "none"
WriteAt(c, i) == IF i <= Len(c.writes) THEN c.writes[i] ELSE "ok"

\* C16: in app-only mode get_token, whatever its scopes and interactive
\* arguments, makes the calls and state changes of acquire_token_for_client
\* with the same scopes and the same answers, never calls get_accounts, a
\* per-account silent lookup or the interactive flow, and returns that run's
\* access token, or None when its result has none.
C16_AppOnlyGetToken ==
    [][(IsCall /\ last'.op = "get_token" /\ client_mode = "confidential")
       => (/\ ~Invoked(last', "get_accounts")
           /\ ~Invoked(last', "acquire_token_interactive")
           /\ \A i \in 1..Len(last'.calls) : last'.calls[i].account = NoneVal
           /\ \E r \in {acquire_token_for_client(World, last'.scopes,
                                                  AnswerAt(last', 1), AnswerAt(last', 2),
                                                  WriteAt(last', 1))} :
                 SameAsForClient(r))]_vars

C16_Witness ==
    /\ last.op = "get_token" /\ client_mode = "confidential"
    /\ last.interactive
    /\ last.scopes = UserRead
    /\ Len(last.calls) = 2
    /\ last.calls[2].result = "error"
    /\ Returned(last) /\ last.res = "none"
    /\ access_token # NoToken

(* ---- C17 ---- *)
\* the environment variable when set and not empty, else the configuration's
\* value
EnvThenConfig(ek, ck) == IF Absent(env[ek]) THEN config[ck] ELSE env[ek]

\* C17: the application a construction builds gets the client identifier,
\* the secret and the authority that resolve from the environment first and
\* the configuration second; the authority is the explicit one when one
\* resolves, else the login URL of the resolved tenant, else the common
\* endpoint.
C17_Resolution ==
    [][(Construct /\ broker' = "live")
       => LET id == EnvThenConfig("CLIENT_ID", "client_id")
              secret == EnvThenConfig("CLIENT_SECRET", "client_secret")
              tenant == EnvThenConfig("TENANT_ID", "tenant_id")
              authority == EnvThenConfig("AUTHORITY", "authority")
          IN  /\ app'.client_id = id
              /\ app'.client_credential = IF Absent(secret) THEN NoneVal ELSE secret
              /\ app'.authority =
                    IF ~Absent(authority) THEN <<authority>>
                    ELSE IF ~Absent(tenant)
                    THEN <<"https://login.microsoftonline.com/", tenant>>
                    ELSE <<"https://login.microsoftonline.com/", "common">>]_vars

C17_Witness ==
    /\ broker = "live"
    /\ env["CLIENT_ID"] = "env-value" /\ config["client_id"] = "cfg-value"
    /\ app.client_id = "env-value"
    /\ env["CLIENT_SECRET"] = "" /\ config["client_secret"] = "cfg-value"
    /\ app.client_credential = "cfg-value"
    /\ env["AUTHORITY"] = "" /\ config["authority"] = NoneVal
    /\ env["TENANT_ID"] = NoneVal /\ config["tenant_id"] = "cfg-value"
    /\ app.authority = <<"https://login.microsoftonline.com/", "cfg-value">>

(* ---- C18 ---- *)
\* call i of c is preceded in c by a silent attempt for account that had no
\* token, and by no call that had one
AfterFailedSilent(c, i, account) ==
    /\ \E j \in 1..(i - 1) :
          /\ c.calls[j].fn = "acquire_token_silent"
          /\ c.calls[j].account = account
          /\ c.calls[j].result # "token"
    /\ \A j \in 1..(i - 1) : c.calls[j].result # "token"

\* C18: whatever ran before, the interactive flow is invoked only by a
\* delegated broker, in a call that found no cached account or whose silent
\* attempt for the first cached account had yielded no token; the
\* client-credentials exchange only by an app-only broker, after the silent
\* lookup of the same call had yielded no token.
C18_LastResortOnly ==
    [][IsCall
       => \A i \in 1..Len(last'.calls) :
             /\ last'.calls[i].fn = "acquire_token_interactive"
                => (/\ client_mode = "public"
                    /\ \/ token_cache.accounts = <<>>
                       \/ AfterFailedSilent(last', i, token_cache.accounts[1].name)
                    /\ \A j \in 1..(i - 1) : last'.calls[j].result # "token")
             /\ last'.calls[i].fn = "acquire_token_for_client"
                => (/\ client_mode = "confidential"
                    /\ AfterFailedSilent(last', i, NoneVal))]_vars

C18_Witness ==
    /\ last.op = "acquire_token_interactive" /\ client_mode = "public"
    /\ Len(last.calls) = 3
    /\ last.calls[2].fn = "acquire_token_silent"
    /\ last.calls[2].result = "none"
    /\ last.calls[3].fn = "acquire_token_interactive"
    /\ last.calls[3].result = "token"

(* ---- C19 ---- *)
\* C19: a call that does not return a token (an exchange or an interactive
\* flow that gave none or raised, get_token returning None) makes no write of
\* the cache file and leaves the file and access_token as they were.
C19_FailureChangesNothing ==
    [][(IsCall /\ ~ReturnedToken(last'))
       => (/\ last'.writes = <<>>
           /\ cache_file' = cache_file
           /\ access_token' = access_token)]_vars

\* an interactive flow failed on a broker holding an earlier token
C19_Witness ==
    /\ last.op \in DelegatedOps
    /\ last.kind = "raise"
    /\ Invoked(last, "acquire_token_interactive")
    /\ access_token # NoToken
    /\ cache_file = FileOf(token_cache)

(* ---- C20 ---- *)
\* C20: a delegated get_token(interactive=True) whose silent attempt for the
\* first cached account yields no token enters acquire_token_interactive,
\* which lists the accounts and makes the silent attempt for the same account
\* again; a token from that second attempt is returned without the
\* interactive flow, and otherwise the interactive flow is invoked, once.
C20_TwoSilentAttempts ==
    (/\ last.op = "get_token" /\ last.interactive /\ client_mode = "public"
     /\ Len(last.calls) >= 2
     /\ SilentFailed(last, 2))
    => (/\ Len(last.calls) >= 4
        /\ last.calls[3].fn = "get_accounts"
        /\ last.calls[4].fn = "acquire_token_silent"
        /\ last.calls[4].account = last.calls[2].account
        /\ last.calls[4].account = token_cache.accounts[1].name
        /\ IF last.calls[4].result = "token"
           THEN /\ Len(last.calls) = 4
                /\ ReturnedToken(last)
                /\ ~Invoked(last, "acquire_token_interactive")
           ELSE /\ Len(last.calls) = 5
                /\ last.calls[5].fn = "acquire_token_interactive"
                /\ Cardinality({i \in 1..Len(last.calls) :
                       last.calls[i].fn = "acquire_token_interactive"}) = 1)

C20_Witness ==
    /\ last.op = "get_token" /\ last.interactive /\ client_mode = "public"
    /\ Len(last.calls) = 5
    /\ SilentFailed(last, 2)
    /\ SilentFailed(last, 4)
    /\ last.calls[5].fn = "acquire_token_interactive"
    /\ last.calls[5].result = "error"

(* ---- C21 ---- *)
\* call i of c is made by acquire_token_interactive: any call of a direct
\* acquire_token_interactive, and in get_token the calls from the second
\* get_accounts on
InAcquisition(c, i) ==
    \/ c.op = "acquire_token_interactive"
    \/ /\ c.op = "get_token"
       /\ Cardinality({j \in 1..i : c.calls[j].fn = "get_accounts"}) = 2

\* C21 as claimed: with scopes unset, the silent attempt and the interactive
\* flow of a delegated acquisition request User.Read and Files.ReadWrite.All,
\* in a direct acquire_token_interactive call and in the acquisition
\* get_token falls back to.
C21_DefaultScopes ==
    (client_mode = "public" /\ last.op \in DelegatedOps /\ last.scopes = NoneScopes)
    => \A i \in 1..Len(last.calls) :
          (/\ InAcquisition(last, i)
           /\ last.calls[i].fn \in {"acquire_token_silent", "acquire_token_interactive"})
          => last.calls[i].scopes = {"User.Read", "Files.ReadWrite.All"}

====
